---------------------------- MODULE Spec2Model ----------------------------
(***************************************************************************)
(* Model of Semaforo_2.c: a push button (pull-up, active low) debounced by *)
(* botao_pressionado_debounce starts a three-phase LED sequence that is    *)
(* advanced by the one-shot alarm callback alarm_callback.                 *)
(*                                                                         *)
(* The main loop is modelled by its program counter main_pc (the source    *)
(* line of the next statement it executes) and sleep_rem (the time left of *)
(* the sleep_ms that precedes that statement).  Statements take no time;   *)
(* time passes in Tick only.  The alarm callback runs in interrupt context *)
(* and main stands still while it runs.  Spec takes the start block of     *)
(* main (lines 141-151) and each callback invocation as one action;        *)
(* SpecStmt takes them one statement at a time.                            *)
(***************************************************************************)
EXTENDS Integers, Sequences, FiniteSets

\* ---------- pins (lines 5-8) ----------
LED_VERMELHO == 13
LED_AZUL == 12
LED_VERDE == 11
BOTAO == 5

Leds == {LED_VERMELHO, LED_AZUL, LED_VERDE}

\* ---------- delays of the program, in ms ----------
T_confirm == 50        \* sleep_ms(50), line 38
T_release_poll == 10   \* sleep_ms(10), line 45
T_loop == 10           \* sleep_ms(10), line 155
T_phase == 3000        \* add_alarm_in_ms(3000, ...), lines 77, 89, 151

\* Time advances in steps of the shortest delay of the program.
Quantum == T_release_poll

\* ---------- bounds of the observers ----------
MaxPresses == 2        \* the press counter saturates here
MaxFires == 4          \* the counter of callback invocations saturates here
HeldCap == T_confirm + 2 * T_loop      \* the press stopwatch saturates here
RelCap == 2 * T_release_poll           \* the release stopwatch saturates here
ElapsedCap == 3 * T_phase + T_loop     \* the sequence stopwatch saturates here

Min(a, b) == IF a < b THEN a ELSE b

VARIABLES
    \* program state
    sequence_active,   \* line 11
    step,              \* line 12
    led,               \* output level of each LED pin
    botao,             \* level of the button pin: 1 released, 0 pressed
    main_pc,           \* next statement of main / botao_pressionado_debounce
    sleep_rem,         \* time left of the main loop's current sleep_ms
    alarms,            \* pending one-shot alarms: sequence of remaining delays
    cb_pc,             \* next statement of an alarm_callback in progress, or "none"
    \* observers (history variables; the program does not read them)
    presses,           \* presses of the button so far (saturating)
    idle_press,        \* the current/last press began with the sequencer idle
                       \* and no sequence started while it was held
    held,              \* duration of the current/last press (saturating)
    rel,               \* time since the last release (saturating)
    trues,             \* true returns of the debounce since that press began
    db_ret,            \* how the last call of the debounce returned
    gap,               \* the line was released between the two samples of the
                       \* current/last call of the debounce
    elapsed,           \* time since the current/last sequence started
    log,               \* <<pattern, elapsed>> at each handler that set outputs
    fires,             \* alarm_callback invocations in this sequence (saturating)
    arms,              \* add_alarm_in_ms calls in this sequence
    puts,              \* gpio_put calls in this sequence
    cb_outcome         \* what the last alarm_callback invocation did

prog == <<sequence_active, step, led, botao, main_pc, sleep_rem, alarms, cb_pc>>
obs == <<presses, idle_press, held, rel, trues, db_ret, gap, elapsed, log, fires,
         arms, puts, cb_outcome>>
vars == <<prog, obs>>

\* The outputs as the triple (red, blue, green).
Pattern(l) == <<l[LED_VERMELHO], l[LED_AZUL], l[LED_VERDE]>>

\* gpio_put(pin, v)
gpio_put(l, pin, v) == [l EXCEPT ![pin] = v]

\* add_alarm_in_ms(ms, alarm_callback, NULL, false)
add_alarm_in_ms(als, ms) == Append(als, ms)

AllOff == [p \in Leds |-> 0]

Init ==
    /\ sequence_active = FALSE
    /\ step = 0
    /\ led = AllOff                 \* lines 129-131
    /\ botao = 1                    \* pull-up, line 124
    /\ main_pc = "L139"
    /\ sleep_rem = 0
    /\ alarms = <<>>
    /\ cb_pc = "none"
    /\ presses = 0
    /\ idle_press = FALSE
    /\ held = 0
    /\ rel = RelCap
    /\ trues = 0
    /\ db_ret = "none"
    /\ gap = FALSE
    /\ elapsed = 0
    /\ log = <<>>
    /\ fires = 0
    /\ arms = 0
    /\ puts = 0
    /\ cb_outcome = "none"

SeqObs == <<elapsed, log, fires, arms, puts, cb_outcome>>
PressObs == <<presses, idle_press, held, rel, trues>>

\* ---------- the environment: the button line ----------
Press ==
    /\ botao = 1
    /\ botao' = 0
    /\ presses' = Min(presses + 1, MaxPresses)
    /\ idle_press' = ~sequence_active
    /\ held' = 0
    /\ rel' = 0
    /\ trues' = 0
    /\ UNCHANGED <<sequence_active, step, led, main_pc, sleep_rem, alarms>>
    /\ UNCHANGED <<db_ret, SeqObs>>
    /\ UNCHANGED <<cb_pc, gap>>

Release ==
    /\ botao = 0
    /\ botao' = 1
    /\ rel' = 0
    /\ UNCHANGED <<sequence_active, step, led, main_pc, sleep_rem, alarms>>
    /\ UNCHANGED <<presses, idle_press, held, trues, db_ret, SeqObs>>
    /\ gap' = (gap \/ main_pc = "L41")
    /\ UNCHANGED cb_pc

\* ---------- time ----------
Tick ==
    /\ sleep_rem > 0
    /\ cb_pc = "none"
    /\ \A i \in 1..Len(alarms) : alarms[i] > 0
    /\ sleep_rem' = sleep_rem - Quantum
    /\ alarms' = [i \in 1..Len(alarms) |-> alarms[i] - Quantum]
    /\ elapsed' = IF sequence_active THEN Min(elapsed + Quantum, ElapsedCap)
                                     ELSE elapsed
    /\ held' = IF botao = 0 THEN Min(held + Quantum, HeldCap) ELSE held
    /\ rel' = IF botao = 1 THEN Min(rel + Quantum, RelCap) ELSE rel
    /\ UNCHANGED <<sequence_active, step, led, botao, main_pc>>
    /\ UNCHANGED <<presses, idle_press, trues, db_ret, log, fires, arms, puts,
                   cb_outcome>>
    /\ UNCHANGED <<cb_pc, gap>>

\* main_L139 with a fault: || in place of &&
main_L139_Or ==
    /\ main_pc = "L139" /\ sleep_rem = 0
    /\ cb_pc = "none"
    /\ IF ~sequence_active
         THEN main_pc' = "L141" /\ sleep_rem' = 0
         ELSE main_pc' = "L33" /\ sleep_rem' = 0
    /\ UNCHANGED <<sequence_active, step, led, botao, alarms>>
    /\ UNCHANGED obs
    /\ UNCHANGED cb_pc

\* main_L139 with a fault: the test of sequence_active is missing
main_L139_NoGuard ==
    /\ main_pc = "L139" /\ sleep_rem = 0
    /\ cb_pc = "none"
    /\ main_pc' = "L33" /\ sleep_rem' = 0
    /\ UNCHANGED <<sequence_active, step, led, botao, alarms>>
    /\ UNCHANGED obs
    /\ UNCHANGED cb_pc

\* ---------- main loop, line 139: if (!sequence_active && ...) ----------
main_L139 ==
    /\ main_pc = "L139" /\ sleep_rem = 0
    /\ cb_pc = "none"
    /\ IF sequence_active
         THEN main_pc' = "L139" /\ sleep_rem' = T_loop     \* line 155
         ELSE main_pc' = "L33" /\ sleep_rem' = 0           \* call the debounce
    /\ UNCHANGED <<sequence_active, step, led, botao, alarms>>
    /\ UNCHANGED obs
    /\ UNCHANGED cb_pc

\* ---------- botao_pressionado_debounce ----------
\* line 33: first sample; released: return false (line 34), then line 155
botao_L33 ==
    /\ main_pc = "L33" /\ sleep_rem = 0
    /\ cb_pc = "none"
    /\ IF botao # 0
         THEN main_pc' = "L139" /\ sleep_rem' = T_loop /\ db_ret' = "false34"
         ELSE main_pc' = "L41" /\ sleep_rem' = T_confirm /\ db_ret' = db_ret
    /\ UNCHANGED <<sequence_active, step, led, botao, alarms>>
    /\ UNCHANGED <<PressObs, SeqObs>>
    /\ gap' = FALSE
    /\ UNCHANGED cb_pc

\* botao_L41 with a fault: the polarity of the second sample is inverted
botao_L41_Inverted ==
    /\ main_pc = "L41" /\ sleep_rem = 0
    /\ cb_pc = "none"
    /\ IF botao # 0
         THEN main_pc' = "L44" /\ sleep_rem' = 0 /\ db_ret' = db_ret
         ELSE main_pc' = "L139" /\ sleep_rem' = T_loop /\ db_ret' = "false52"
    /\ UNCHANGED <<sequence_active, step, led, botao, alarms>>
    /\ UNCHANGED <<PressObs, SeqObs>>
    /\ UNCHANGED <<cb_pc, gap>>

\* botao_L41 with a fault: the press is accepted without the second sample
botao_L41_NoRecheck ==
    /\ main_pc = "L41" /\ sleep_rem = 0
    /\ cb_pc = "none"
    /\ main_pc' = "L44" /\ sleep_rem' = 0 /\ db_ret' = db_ret
    /\ UNCHANGED <<sequence_active, step, led, botao, alarms>>
    /\ UNCHANGED <<PressObs, SeqObs>>
    /\ UNCHANGED <<cb_pc, gap>>

\* line 41: second sample after sleep_ms(50); released: return false (line 52)
botao_L41 ==
    /\ main_pc = "L41" /\ sleep_rem = 0
    /\ cb_pc = "none"
    /\ IF botao = 0
         THEN main_pc' = "L44" /\ sleep_rem' = 0 /\ db_ret' = db_ret
         ELSE main_pc' = "L139" /\ sleep_rem' = T_loop /\ db_ret' = "false52"
    /\ UNCHANGED <<sequence_active, step, led, botao, alarms>>
    /\ UNCHANGED <<PressObs, SeqObs>>
    /\ UNCHANGED <<cb_pc, gap>>

\* botao_L44 with a fault: true is returned without waiting for the release
botao_L44_NoWait ==
    /\ main_pc = "L44" /\ sleep_rem = 0
    /\ cb_pc = "none"
    /\ main_pc' = "L141" /\ sleep_rem' = 0
    /\ db_ret' = "true48" /\ trues' = trues + 1
    /\ UNCHANGED <<sequence_active, step, led, botao, alarms>>
    /\ UNCHANGED <<presses, idle_press, held, rel, SeqObs>>
    /\ UNCHANGED <<cb_pc, gap>>

\* lines 44-48: wait for the release, then return true
botao_L44 ==
    /\ main_pc = "L44" /\ sleep_rem = 0
    /\ cb_pc = "none"
    /\ IF botao = 0
         THEN /\ main_pc' = "L44" /\ sleep_rem' = T_release_poll
              /\ db_ret' = db_ret /\ trues' = trues
         ELSE /\ main_pc' = "L141" /\ sleep_rem' = 0
              /\ db_ret' = "true48" /\ trues' = trues + 1
    /\ UNCHANGED <<sequence_active, step, led, botao, alarms>>
    /\ UNCHANGED <<presses, idle_press, held, rel, SeqObs>>
    /\ UNCHANGED <<cb_pc, gap>>

\* main_L141 with a fault: the first alarm is armed with a wrong delay
main_L141_WrongDelay ==
    /\ main_pc = "L141" /\ sleep_rem = 0
    /\ cb_pc = "none"
    /\ sequence_active' = TRUE
    /\ step' = 1
    /\ led' = gpio_put(gpio_put(gpio_put(led, LED_VERMELHO, 1), LED_AZUL, 1),
                       LED_VERDE, 1)
    /\ alarms' = add_alarm_in_ms(alarms, T_phase + T_confirm)
    /\ main_pc' = "L139" /\ sleep_rem' = T_loop
    /\ elapsed' = 0
    /\ log' = << <<Pattern(led'), 0>> >>
    /\ fires' = 0 /\ arms' = 1 /\ puts' = 3
    /\ idle_press' = (idle_press /\ botao = 1)
    /\ UNCHANGED <<botao, presses, held, rel, trues, db_ret, cb_outcome>>
    /\ UNCHANGED <<cb_pc, gap>>

\* ---------- main loop, lines 141-155: start the sequence ----------
main_L141 ==
    /\ main_pc = "L141" /\ sleep_rem = 0
    /\ cb_pc = "none"
    /\ sequence_active' = TRUE
    /\ step' = 1
    /\ led' = gpio_put(gpio_put(gpio_put(led, LED_VERMELHO, 1), LED_AZUL, 1),
                       LED_VERDE, 1)
    /\ alarms' = add_alarm_in_ms(alarms, T_phase)
    /\ main_pc' = "L139" /\ sleep_rem' = T_loop            \* line 155
    /\ elapsed' = 0
    /\ log' = << <<Pattern(led'), 0>> >>
    /\ fires' = 0 /\ arms' = 1 /\ puts' = 3
    /\ idle_press' = (idle_press /\ botao = 1)
    /\ UNCHANGED <<botao, presses, held, rel, trues, db_ret, cb_outcome>>
    /\ UNCHANGED <<cb_pc, gap>>

\* ---------- alarm_callback, lines 66-106 ----------
\* The effect of one invocation on (step, sequence_active, led), the delays
\* of the alarms it arms and the number of gpio_put calls it makes.

\* Case1 with a fault: phase 2 is skipped
Case1_SkipPhase(act, l) ==
    [step |-> 3, sequence_active |-> act,
     led |-> gpio_put(gpio_put(gpio_put(l, LED_VERMELHO, 1), LED_AZUL, 1),
                      LED_VERDE, 0),
     armed |-> <<T_phase>>, puts |-> 3]

\* case 1, lines 68-78
Case1(act, l) ==
    [step |-> 2, sequence_active |-> act,
     led |-> gpio_put(gpio_put(gpio_put(l, LED_VERMELHO, 1), LED_AZUL, 1),
                      LED_VERDE, 0),
     armed |-> <<T_phase>>, puts |-> 3]

\* Case2 with a fault: the next alarm is not armed
Case2_NoRearm(act, l) ==
    [step |-> 3, sequence_active |-> act,
     led |-> gpio_put(gpio_put(gpio_put(l, LED_VERMELHO, 1), LED_AZUL, 0),
                      LED_VERDE, 0),
     armed |-> <<>>, puts |-> 3]

\* Case2 with a fault: the blue LED is left on
Case2_BlueOn(act, l) ==
    [step |-> 3, sequence_active |-> act,
     led |-> gpio_put(gpio_put(gpio_put(l, LED_VERMELHO, 1), LED_AZUL, 1),
                      LED_VERDE, 0),
     armed |-> <<T_phase>>, puts |-> 3]

\* case 2, lines 80-90
Case2(act, l) ==
    [step |-> 3, sequence_active |-> act,
     led |-> gpio_put(gpio_put(gpio_put(l, LED_VERMELHO, 1), LED_AZUL, 0),
                      LED_VERDE, 0),
     armed |-> <<T_phase>>, puts |-> 3]

\* Case3 with a fault: sequence_active is not cleared
Case3_KeepsActive(act, l) ==
    [step |-> 0, sequence_active |-> act,
     led |-> gpio_put(gpio_put(gpio_put(l, LED_VERMELHO, 0), LED_AZUL, 0),
                      LED_VERDE, 0),
     armed |-> <<>>, puts |-> 3]

\* Case3 with a fault: the last phase arms one more alarm
Case3_Rearm(act, l) ==
    [step |-> 0, sequence_active |-> FALSE,
     led |-> gpio_put(gpio_put(gpio_put(l, LED_VERMELHO, 0), LED_AZUL, 0),
                      LED_VERDE, 0),
     armed |-> <<T_phase>>, puts |-> 3]

\* case 3, lines 92-102
Case3(act, l) ==
    [step |-> 0, sequence_active |-> FALSE,
     led |-> gpio_put(gpio_put(gpio_put(l, LED_VERMELHO, 0), LED_AZUL, 0),
                      LED_VERDE, 0),
     armed |-> <<>>, puts |-> 3]

\* switch (step), line 67; it has no default: otherwise nothing happens
CallbackEffect(st, act, l) ==
    CASE st = 1 -> Case1(act, l)
      [] st = 2 -> Case2(act, l)
      [] st = 3 -> Case3(act, l)
      [] OTHER -> [step |-> st, sequence_active |-> act, led |-> l,
                   armed |-> <<>>, puts |-> 0]

\* One invocation of the callback; rest = the alarms still pending.
Invoke(rest) ==
    LET e == CallbackEffect(step, sequence_active, led) IN
    /\ step' = e.step
    /\ sequence_active' = e.sequence_active
    /\ led' = e.led
    /\ alarms' = IF e.armed = <<>> THEN rest
                 ELSE add_alarm_in_ms(rest, e.armed[1])
    /\ fires' = Min(fires + 1, MaxFires)
    /\ arms' = arms + Len(e.armed)
    /\ puts' = puts + e.puts
    /\ log' = IF e.puts > 0 THEN Append(log, <<Pattern(e.led), elapsed>>)
                            ELSE log
    /\ cb_outcome' = IF e.puts > 0 THEN "advanced" ELSE "noop"
    /\ UNCHANGED <<botao, main_pc, sleep_rem, elapsed>>
    /\ UNCHANGED <<PressObs, db_ret>>
    /\ UNCHANGED <<cb_pc, gap>>

RemoveAt(s, i) == SubSeq(s, 1, i - 1) \o SubSeq(s, i + 1, Len(s))

\* A pending alarm is due: the alarm pool removes it and calls the callback.
alarm_callback ==
    \E i \in 1..Len(alarms) :
        /\ alarms[i] = 0
        /\ Invoke(RemoveAt(alarms, i))

Main == main_L139 \/ botao_L33 \/ botao_L41 \/ botao_L44 \/ main_L141

Next == Press \/ Release \/ Tick \/ Main \/ alarm_callback

Spec == Init /\ [][Next]_vars

\* Time passes, the main loop runs, and a due alarm is delivered.
SpecFair ==
    /\ Init /\ [][Next]_vars
    /\ WF_vars(Tick) /\ WF_vars(Main) /\ WF_vars(alarm_callback)


\* ======================= properties =======================

Idle == step = 0 /\ sequence_active = FALSE
IdleOff == Idle /\ led = AllOff
Ran == log # <<>>          \* a sequence has been started

\* The patterns of the log, without their times.
Patterns == [i \in 1..Len(log) |-> log[i][1]]

\* C1: in every reachable state (the transitions being the main loop's
\* start of a sequence and the invocations of alarm_callback), step is 0
\* exactly when sequence_active is false.
C1_StepZeroIffInactive == (step = 0) <=> (sequence_active = FALSE)

C1_Witness == step = 3 /\ sequence_active /\ botao = 0

\* C2: after a validated click from idle with all outputs off, the output
\* patterns (red, blue, green) applied are [1,1,1], [1,1,0], [1,0,0],
\* [0,0,0] in this order and nothing else; the outputs show the last
\* pattern applied; after the fourth the sequencer is idle.
ExpectedPatterns == << <<1, 1, 1>>, <<1, 1, 0>>, <<1, 0, 0>>, <<0, 0, 0>> >>

C3_NoReentry ==
    [][(sequence_active /\ fires' = fires)
         => /\ step' = step
            /\ sequence_active' = sequence_active
            /\ led' = led
            /\ puts' = puts
            /\ arms' = arms
            /\ Len(alarms') = Len(alarms)
            /\ main_pc' = "L139"]_vars

C3_Witness == sequence_active /\ botao = 0 /\ presses = 2 /\ step = 2

C5_StepOrder ==
    [][step' # step =>
         \/ /\ step = 0 /\ step' = 1
            /\ main_pc = "L141" /\ db_ret = "true48" /\ alarms = <<>>
         \/ /\ <<step, step'>> \in {<<1, 2>>, <<2, 3>>, <<3, 0>>}
            /\ fires' = fires + 1
            /\ \E i \in 1..Len(alarms) : alarms[i] = 0
            /\ main_pc' = main_pc]_vars

C5_Witness == Idle /\ fires = 3 /\ Ran

\* ---------- a faulty alarm pool ----------
\* The platform delivers the callback although no alarm is due (a stale or
\* duplicated delivery) while the sequencer is idle.
StaleDelivery ==
    /\ step = 0
    /\ Invoke(alarms)

NextFault == Next \/ StaleDelivery

SpecFault == Init /\ [][NextFault]_vars

\* C6: an invocation of alarm_callback with step = 0 is fatal: the callback
\* never falls through its switch and returns with the state unchanged.
C6_StaleDeliveryIsFatal == cb_outcome # "noop"

\* C7: for a single press held for less than T_confirm, the line being
\* released before and after, no call of the debounce returns true, and
\* step, sequence_active, the outputs and the pending timers stay as they
\* were at start-up.
C7_ShortPressDropped ==
    (presses <= 1 /\ held < T_confirm)
        => /\ trues = 0 /\ db_ret # "true48" /\ main_pc # "L141"
           /\ Idle /\ led = AllOff /\ alarms = <<>>
           /\ ~Ran /\ puts = 0 /\ arms = 0

C7_Witness ==
    /\ presses = 1 /\ botao = 1 /\ held > 0 /\ held < T_confirm
    /\ db_ret = "false52" /\ main_pc = "L139"

\* C8 as stated: while the sequencer is idle and the main loop polls every
\* T_loop, a press held for at least T_confirm and then released makes the
\* debounce return true exactly once (seen once the release has lasted
\* longer than one release poll).
C8_PressOfTconfirmOneTrue ==
    /\ trues <= 1
    /\ (botao = 1 /\ idle_press /\ held >= T_confirm /\ rel > T_release_poll)
          => trues = 1

\* C8, amended: the same for a press held longer than T_confirm + T_loop.
\* While such a press is held the debounce has confirmed it and waits for
\* the release without having returned; after the release it returns true
\* at its next sample, so exactly once.
C8_LongPressOneTrue ==
    /\ trues <= 1
    /\ (idle_press /\ held > T_confirm + T_loop)
          => IF botao = 0
               THEN trues = 0 /\ main_pc = "L44"
               ELSE trues = 1 \/ (main_pc = "L44" /\ rel <= T_release_poll)

C8_Witness ==
    /\ botao = 1 /\ idle_press /\ held > T_confirm + T_loop
    /\ rel > T_release_poll /\ trues = 1 /\ db_ret = "true48"

\* C9: with t the instant at which the click is accepted and [1,1,1] is
\* applied, [1,1,0] is applied at t + 3000, [1,0,0] at t + 6000 and [0,0,0]
\* at t + 9000: each phase lasts T_phase, and the sequencer is idle from
\* t + 9000 on.
C9_PhaseTiming ==
    /\ \A i \in 1..Len(log) :
          i <= 4 /\ log[i] = <<ExpectedPatterns[i], (i - 1) * T_phase>>
    /\ sequence_active
          => /\ step \in 1..3
             /\ elapsed >= (step - 1) * T_phase
             /\ elapsed <= step * T_phase
             /\ alarms = <<step * T_phase - elapsed>>
    /\ (Ran /\ ~sequence_active) => Len(log) = 4 /\ elapsed = 3 * T_phase

C9_Witness ==
    /\ Idle /\ Len(log) = 4
    /\ log[4] = << <<0, 0, 0>>, 3 * T_phase >>
    /\ elapsed = 3 * T_phase

\* C10: a sequence that has started runs to completion: under fair
\* delivery of the armed timers the sequencer returns to idle with all
\* outputs off, and it returns to idle only at the third timer expiry,
\* whatever the button does.
C10_RunsToCompletion ==
    /\ sequence_active ~> IdleOff
    /\ [](Ran /\ ~sequence_active => fires = 3 /\ IdleOff)
    /\ [][sequence_active /\ ~sequence_active' => fires = 2 /\ fires' = 3]_vars

\* idle again after three expiries, with a press made during the sequence
\* still held
C10_Witness ==
    /\ Ran /\ IdleOff /\ fires = 3
    /\ botao = 0 /\ ~idle_press /\ presses = 2

\* ---------- the program statement by statement ----------
\* The start block of main and alarm_callback, one action per statement.
\* The callback runs in interrupt context: it may start between any two
\* statements of main (whenever an alarm is due), and main and the clock
\* stand still until it returns (their guard cb_pc = "none").

MainFrame == UNCHANGED <<botao, cb_pc, presses, held, rel, trues, db_ret, gap,
                         cb_outcome>>

\* line 141: sequence_active = true
stmt_L141 ==
    /\ main_pc = "L141" /\ sleep_rem = 0 /\ cb_pc = "none"
    /\ sequence_active' = TRUE
    /\ main_pc' = "L142"
    /\ elapsed' = 0 /\ log' = <<>> /\ fires' = 0 /\ arms' = 0 /\ puts' = 0
    /\ idle_press' = (idle_press /\ botao = 1)
    /\ UNCHANGED <<step, led, sleep_rem, alarms>>
    /\ MainFrame

\* line 142: step = 1
stmt_L142 ==
    /\ main_pc = "L142" /\ cb_pc = "none"
    /\ step' = 1
    /\ main_pc' = "L145"
    /\ UNCHANGED <<sequence_active, led, sleep_rem, alarms>>
    /\ UNCHANGED <<idle_press, elapsed, log, fires, arms, puts>>
    /\ MainFrame

\* StartPuts with a fault: line 145 drives the green LED
StartPuts_GreenFirst ==
    { [pc |-> "L145", pin |-> LED_VERDE, v |-> 1, next |-> "L146"],
      [pc |-> "L146", pin |-> LED_AZUL, v |-> 1, next |-> "L147"],
      [pc |-> "L147", pin |-> LED_VERDE, v |-> 1, next |-> "L151"] }

\* lines 145-147: the gpio_put calls of the start block
StartPuts ==
    { [pc |-> "L145", pin |-> LED_VERMELHO, v |-> 1, next |-> "L146"],
      [pc |-> "L146", pin |-> LED_AZUL, v |-> 1, next |-> "L147"],
      [pc |-> "L147", pin |-> LED_VERDE, v |-> 1, next |-> "L151"] }

stmt_main_put ==
    \E t \in StartPuts :
        /\ main_pc = t.pc /\ cb_pc = "none"
        /\ led' = gpio_put(led, t.pin, t.v)
        /\ puts' = puts + 1
        /\ main_pc' = t.next
        /\ UNCHANGED <<sequence_active, step, sleep_rem, alarms>>
        /\ UNCHANGED <<idle_press, elapsed, log, fires, arms>>
        /\ MainFrame

\* lines 151-155: add_alarm_in_ms(3000, ...), then sleep_ms(10)
stmt_L151 ==
    /\ main_pc = "L151" /\ cb_pc = "none"
    /\ alarms' = add_alarm_in_ms(alarms, T_phase)
    /\ arms' = arms + 1
    /\ log' = << <<Pattern(led), 0>> >>
    /\ main_pc' = "L139" /\ sleep_rem' = T_loop
    /\ UNCHANGED <<sequence_active, step, led>>
    /\ UNCHANGED <<idle_press, elapsed, fires, puts>>
    /\ MainFrame

CbFrame == UNCHANGED <<botao, main_pc, sleep_rem, elapsed, presses, idle_press,
                       held, rel, trues, db_ret, gap>>

\* A pending alarm is due: the alarm pool removes it and enters the callback.
cb_enter ==
    /\ cb_pc = "none"
    /\ \E i \in 1..Len(alarms) :
          /\ alarms[i] = 0
          /\ alarms' = RemoveAt(alarms, i)
    /\ cb_pc' = "L67"
    /\ fires' = Min(fires + 1, MaxFires)
    /\ UNCHANGED <<sequence_active, step, led, log, arms, puts, cb_outcome>>
    /\ CbFrame

\* line 67: switch (step)
cb_L67 ==
    /\ cb_pc = "L67"
    /\ cb_pc' = CASE step = 1 -> "L71"
                  [] step = 2 -> "L83"
                  [] step = 3 -> "L95"
                  [] OTHER -> "L105"
    /\ cb_outcome' = IF step \in 1..3 THEN "advanced" ELSE "noop"
    /\ UNCHANGED <<sequence_active, step, led, alarms, log, fires, arms, puts>>
    /\ CbFrame

\* the gpio_put calls of the three cases
CallbackPuts ==
    { [pc |-> "L71", pin |-> LED_VERMELHO, v |-> 1, next |-> "L72"],
      [pc |-> "L72", pin |-> LED_AZUL, v |-> 1, next |-> "L73"],
      [pc |-> "L73", pin |-> LED_VERDE, v |-> 0, next |-> "L76"],
      [pc |-> "L83", pin |-> LED_VERMELHO, v |-> 1, next |-> "L84"],
      [pc |-> "L84", pin |-> LED_AZUL, v |-> 0, next |-> "L85"],
      [pc |-> "L85", pin |-> LED_VERDE, v |-> 0, next |-> "L88"],
      [pc |-> "L95", pin |-> LED_VERMELHO, v |-> 0, next |-> "L96"],
      [pc |-> "L96", pin |-> LED_AZUL, v |-> 0, next |-> "L97"],
      [pc |-> "L97", pin |-> LED_VERDE, v |-> 0, next |-> "L100"] }

cb_put ==
    \E t \in CallbackPuts :
        /\ cb_pc = t.pc
        /\ led' = gpio_put(led, t.pin, t.v)
        /\ puts' = puts + 1
        /\ cb_pc' = t.next
        /\ UNCHANGED <<sequence_active, step, alarms, log, fires, arms,
                       cb_outcome>>
        /\ CbFrame

\* lines 76, 88, 100: the assignments to step
CallbackSteps ==
    { [pc |-> "L76", v |-> 2, next |-> "L77"],
      [pc |-> "L88", v |-> 3, next |-> "L89"],
      [pc |-> "L100", v |-> 0, next |-> "L101"] }

cb_step ==
    \E t \in CallbackSteps :
        /\ cb_pc = t.pc
        /\ step' = t.v
        /\ cb_pc' = t.next
        /\ UNCHANGED <<sequence_active, led, alarms, log, fires, arms, puts,
                       cb_outcome>>
        /\ CbFrame

\* lines 77, 89: add_alarm_in_ms(3000, ...), then break
cb_arm ==
    /\ cb_pc \in {"L77", "L89"}
    /\ alarms' = add_alarm_in_ms(alarms, T_phase)
    /\ arms' = arms + 1
    /\ cb_pc' = "L105"
    /\ UNCHANGED <<sequence_active, step, led, log, fires, puts, cb_outcome>>
    /\ CbFrame

\* line 101: sequence_active = false, then break
cb_L101 ==
    /\ cb_pc = "L101"
    /\ sequence_active' = FALSE
    /\ cb_pc' = "L105"
    /\ UNCHANGED <<step, led, alarms, log, fires, arms, puts, cb_outcome>>
    /\ CbFrame

\* line 105: return false
cb_L105 ==
    /\ cb_pc = "L105"
    /\ cb_pc' = "none"
    /\ log' = IF cb_outcome = "advanced"
                THEN Append(log, <<Pattern(led), elapsed>>) ELSE log
    /\ UNCHANGED <<sequence_active, step, led, alarms, fires, arms, puts,
                   cb_outcome>>
    /\ CbFrame

StmtMain ==
    \/ main_L139 \/ botao_L33 \/ botao_L41 \/ botao_L44
    \/ stmt_L141 \/ stmt_L142 \/ stmt_main_put \/ stmt_L151

StmtCallback ==
    cb_enter \/ cb_L67 \/ cb_put \/ cb_step \/ cb_arm \/ cb_L101 \/ cb_L105

NextStmt == Press \/ Release \/ Tick \/ StmtMain \/ StmtCallback

SpecStmt == Init /\ [][NextStmt]_vars

\* C11: while the sequencer is idle, a call of the debounce that returns
\* false (line 34 or line 52) leaves step = 0 and sequence_active = false,
\* writes no output and arms no timer, however often it happens: the main
\* loop goes on to its sleep of line 155, and the start block is entered
\* only after a true return.
FalseReturn == main_pc \in {"L33", "L41"} /\ main_pc' \notin {"L33", "L41", "L44"}

C11_FalsePollsChangeNothing ==
    /\ [](main_pc = "L141" => db_ret = "true48")
    /\ [][FalseReturn
            => /\ db_ret' \in {"false34", "false52"}
               /\ main_pc' = "L139" /\ sleep_rem' = T_loop
               /\ Idle /\ Idle'
               /\ led' = led /\ puts' = puts /\ arms' = arms
               /\ alarms = <<>> /\ alarms' = <<>>]_vars

\* idle after a completed sequence, the last poll having returned false
C11_Witness ==
    /\ Idle /\ Ran /\ db_ret = "false52" /\ main_pc = "L139"
    /\ led = AllOff /\ alarms = <<>>

\* C12: with main and alarm_callback interleaved statement by statement,
\* the two writers of sequence_active and step never overlap: no callback
\* is executing, and no alarm is pending, while main is between its test of
\* sequence_active (line 139) and its add_alarm_in_ms (line 151); and while
\* a callback executes main is at line 139.
BetweenTestAndArm ==
    {"L33", "L41", "L44", "L141", "L142", "L145", "L146", "L147", "L151"}

C12_WritersNeverOverlap ==
    /\ main_pc \in BetweenTestAndArm => cb_pc = "none" /\ alarms = <<>>
    /\ cb_pc # "none" => main_pc = "L139"

\* the callback is about to clear sequence_active while main is ready to
\* test it
C12_Witness == cb_pc = "L101" /\ main_pc = "L139" /\ sleep_rem = 0

\* C13: timers being armed by the program only and each fired once (every
\* alarm armed in a sequence has fired or is pending), alarm_callback is
\* never invoked with step = 0: whenever an alarm is pending, so at the
\* start of every invocation, step is 1, 2 or 3 and sequence_active is
\* true, and no invocation falls through the switch.
C13_CallbackOnlyWhenActive ==
    /\ alarms # <<>> => step \in 1..3 /\ sequence_active
    /\ Ran => arms = fires + Len(alarms)
    /\ cb_outcome \in {"none", "advanced"}

\* the alarm of phase 3 is due
C13_Witness == alarms = <<0>> /\ step = 3 /\ sequence_active /\ fires = 2

\* C14: the sequencer never terminates, it cycles: however many sequences
\* have completed, a validated click while idle starts a new sequence with
\* phase 1, which returns to idle; with validated clicks again and again the
\* sequencer is idle infinitely often and active infinitely often.
Clicked == main_pc = "L141"

C14_Cycles ==
    /\ [](Clicked => IdleOff /\ alarms = <<>>)
    /\ [][Clicked /\ ~Clicked'
            => /\ sequence_active' /\ step' = 1
               /\ Pattern(led') = <<1, 1, 1>>
               /\ alarms' = <<T_phase>>]_vars
    /\ Clicked ~> sequence_active
    /\ sequence_active ~> IdleOff
    /\ []<>Clicked => ([]<>Idle /\ []<>sequence_active)

\* a second sequence has started after a completed one
C14_Witness ==
    /\ sequence_active /\ step = 1 /\ fires = 0 /\ cb_outcome = "advanced"
    /\ idle_press /\ presses = 2

\* C15: once the debounce has confirmed a press (it is at line 44), it
\* returns true only at a sample that finds the line released; while the
\* line stays pressed it stays in its wait loop, so main makes no progress
\* and no sequence starts.
C15_WaitsForRelease ==
    [][main_pc = "L44"
         => /\ main_pc' \in {"L44", "L141"}
            /\ main_pc' = "L141"
                  => botao = 1 /\ botao' = 1 /\ db_ret' = "true48"
            /\ (botao = 0 /\ botao' = 0) => main_pc' = "L44"
            /\ Idle' /\ led' = led /\ alarms' = <<>>]_vars

\* waiting in the loop of line 44 on a press held for long
C15_Witness ==
    /\ main_pc = "L44" /\ botao = 0 /\ held = HeldCap
    /\ sleep_rem = T_release_poll /\ Idle

\* C16: the debounce executes (its sleeps and its wait loop included) only
\* while the sequencer is idle and no timer is pending: no callback is due
\* or delivered while it blocks, and step, sequence_active and the outputs
\* do not change from its call to its return.
InDebounce == main_pc \in {"L33", "L41", "L44"}

C16_DebounceOnlyWhenIdle ==
    /\ [](InDebounce => Idle /\ alarms = <<>> /\ cb_pc = "none")
    /\ [][InDebounce
            => /\ UNCHANGED <<step, sequence_active, led, alarms>>
               /\ UNCHANGED <<fires, arms, puts, log>>]_vars

\* blocked in the sleep of line 38 after a completed sequence
C16_Witness ==
    /\ main_pc = "L41" /\ sleep_rem > 0 /\ sleep_rem < T_confirm /\ Ran
    /\ Idle

\* C17: in every state, those between the single gpio_put calls of the start
\* block and of the callback included, green on implies blue on and blue on
\* implies red on: the outputs show [0,0,0], [1,0,0], [1,1,0] or [1,1,1].
C17_OutputsNested ==
    /\ led[LED_VERDE] = 1 => led[LED_AZUL] = 1
    /\ led[LED_AZUL] = 1 => led[LED_VERMELHO] = 1

\* between two writes of the start block
C17_Witness == main_pc = "L146" /\ Pattern(led) = <<1, 0, 0>> /\ step = 1

\* C18: a press that began during a sequence (or as it started) and is
\* still held when the sequencer is idle again is treated like any other:
\* the first poll samples it, the second sample 50 later confirms it if it
\* is still held, and at its release the debounce returns true and a new
\* sequence starts.
StalePress == ~idle_press /\ Ran /\ ~sequence_active

C18_StalePressAccepted ==
    /\ [][(StalePress /\ botao = 0 /\ main_pc = "L33" /\ main_pc' # "L33")
            => main_pc' = "L41" /\ sleep_rem' = T_confirm]_vars
    /\ [][(StalePress /\ botao = 0 /\ main_pc = "L41" /\ main_pc' # "L41")
            => main_pc' = "L44"]_vars
    /\ [][(StalePress /\ botao = 1 /\ main_pc = "L44" /\ main_pc' # "L44")
            => main_pc' = "L141" /\ db_ret' = "true48"]_vars
    /\ (StalePress /\ main_pc = "L44" /\ botao = 1)
          ~> (sequence_active \/ botao = 0)
    /\ (StalePress /\ Clicked) ~> (sequence_active /\ step = 1)

\* a second sequence started by a press made during the first
C18_Witness ==
    /\ sequence_active /\ step = 1 /\ fires = 0 /\ cb_outcome = "advanced"
    /\ ~idle_press /\ db_ret = "true48" /\ botao = 1 /\ ~gap

\* C19: the debounce decides on two samples 50 apart and does not look at
\* the line in between: during the sleep of line 38 it does not move, and
\* a line that was pressed at the first sample, released in between and
\* pressed again at the second is accepted; at its release the debounce
\* returns true and a sequence starts.
C19_TwoBlipsAccepted ==
    /\ [][(main_pc = "L41" /\ sleep_rem > 0) => main_pc' = "L41"]_vars
    /\ [][(main_pc = "L41" /\ gap /\ botao = 0 /\ main_pc' # "L41")
            => main_pc' = "L44"]_vars
    /\ [][(main_pc = "L44" /\ gap /\ botao = 1 /\ main_pc' # "L44")
            => main_pc' = "L141" /\ db_ret' = "true48"]_vars
    /\ [][(Clicked /\ gap /\ ~Clicked')
            => sequence_active' /\ step' = 1 /\ Pattern(led') = <<1, 1, 1>>]_vars

\* the first sequence, started by a second blip shorter than T_confirm
C19_Witness ==
    /\ sequence_active /\ step = 1 /\ fires = 0 /\ cb_outcome = "none"
    /\ gap /\ presses = 2 /\ botao = 1 /\ held < T_confirm /\ trues = 1

=============================================================================
